---- MODULE Spec2Model ----
(***************************************************************************)
(* Model of examples/example_use_flmr.py: the query pipeline of main()     *)
(*   ds.map(prepare_inputs) -> ds.map(tokenize_inputs, batched)            *)
(*   -> query_index: ds.map(encode_and_search_batch, batched).             *)
(*                                                                         *)
(* Text is a sequence of one-character strings.  Pixel coordinates are     *)
(* counted in half pixels (5 px = 10, 2.5 px = 5), attribute scores in     *)
(* hundredths (0.05 = 5).  Python's 0-based passage ids are kept; the      *)
(* lookup passage_contents[doc_idx] reads position doc_idx + 1.            *)
(***************************************************************************)
EXTENDS Integers, Sequences, FiniteSets, TLC

(* ------------------------------ bounds -------------------------------- *)
\* longest ROI list of a sample
MaxROIs == 10
\* longest attribute list of a detected object
MaxAttrs == 4
\* largest box coordinate, in half pixels
MaxCoord == 13
\* largest recall cutoff a run may request
MaxK == 4

(* ------------------------- program constants -------------------------- *)
\* def prepare_inputs(sample, num_ROIs=9); ds.map(prepare_inputs) passes no other value
num_ROIs == 9
attribute_max == 3
\* 0.05, in hundredths
attribute_thres == 5
\* "if xmax - xmin < 5": 5 px in half pixels
min_crop_size == 10
\* "xmin - 2.5": 2.5 px in half pixels
enlarge_by == 5

(* ------------------------------ strings ------------------------------- *)
UpperLetters == <<"A","B","C","D","E","F","G","H","I","J","K","L","M",
                  "N","O","P","Q","R","S","T","U","V","W","X","Y","Z">>
LowerLetters == <<"a","b","c","d","e","f","g","h","i","j","k","l","m",
                  "n","o","p","q","r","s","t","u","v","w","x","y","z">>
Whitespace == {" ", "\n", "\t"}

\* str.lower() on one character
lower_char(c) ==
    IF \E i \in 1..Len(UpperLetters) : UpperLetters[i] = c
    THEN LowerLetters[CHOOSE i \in 1..Len(UpperLetters) : UpperLetters[i] = c]
    ELSE c

\* str.lower()
lower(s) == [i \in 1..Len(s) |-> lower_char(s[i])]

\* str.strip(): drops leading and trailing whitespace
strip(s) ==
    LET keep == {i \in 1..Len(s) : s[i] \notin Whitespace}
    IN  IF keep = {} THEN <<>>
        ELSE LET lo == CHOOSE i \in keep : \A j \in keep : i <= j
                 hi == CHOOSE i \in keep : \A j \in keep : j <= i
             IN  SubSeq(s, lo, hi)

\* description.replace("\n", " ")
replace_newline(s) == [i \in 1..Len(s) |-> IF s[i] = "\n" THEN " " ELSE s[i]]

\* Python's `needle in hay` on strings
str_in(needle, hay) ==
    \E i \in 0..(Len(hay) - Len(needle)) : SubSeq(hay, i + 1, i + Len(needle)) = needle

\* " ".join(parts)
RECURSIVE join(_)
join(parts) ==
    IF parts = <<>> THEN <<>>
    ELSE IF Len(parts) = 1 THEN parts[1]
    ELSE parts[1] \o <<" ">> \o join(Tail(parts))

\* max(xs) of a non-empty list of integers
RECURSIVE max_of(_)
max_of(xs) ==
    IF Len(xs) = 1 THEN xs[1]
    ELSE LET m == max_of(Tail(xs)) IN IF xs[1] > m THEN xs[1] ELSE m

\* Python's xs[:k] for k >= 0
take(xs, k) == SubSeq(xs, 1, IF k < Len(xs) THEN k ELSE Len(xs))

(* ------------------------- data of the runs --------------------------- *)
BOQ == <<"<","B","O","Q",">">>
EOQ == <<"<","E","O","Q",">">>
BOV == <<"<","B","O","V",">">>
SOV == <<"<","S","O","V",">">>
EOV == <<"<","E","O","V",">">>
BOC == <<"<","B","O","C",">">>
EOC == <<"<","E","O","C",">">>
BOK == <<"<","B","O","K",">">>
EOK == <<"<","E","O","K",">">>

Digits == <<"1","2","3","4","5","6","7","8","9">>

\* passage_ds["passage_content"] of the split
passage_ds == << <<"R","o","m","e">>,
                 <<"i","n"," ","P","a","r","i","s">>,
                 <<"O","s","l","o">> >>

\* passage_contents = ["<BOK> " + passage + " <EOK>" for passage in passage_contents]
passage_contents ==
    [i \in 1..Len(passage_ds) |-> BOK \o <<" ">> \o passage_ds[i] \o <<" ">> \o EOK]

\* gold answer lists of a sample
AnswerLists == { << <<" ","p","a","r","i","s"," ">> >>,
                 << <<"l","i","m","a">>, <<"R","O","M","E">> >>,
                 << <<"l","i","m","a">> >> }

\* attribute scores, in hundredths: below, at and above attribute_thres
Scores == {1, 5, 90}

\* a detected object with n attributes "a1".."an" and the scores sc
DetectedObject(n, sc) ==
    [class |-> <<"c","a","t">>,
     attributes |-> [i \in 1..n |-> <<"a", Digits[i]>>],
     attribute_scores |-> sc]

DetectedObjects ==
    UNION {{DetectedObject(n, sc) : sc \in [1..n -> Scores]} : n \in 0..MaxAttrs}

DefaultObject == DetectedObject(2, <<90, 1>>)

\* a region descriptor "{img_path}|||{class}_{xmin}_{ymin}_{xmax}_{ymax}" as the
\* pieces its two splits produce: remaining.split("_") is class_parts \o box
RegionDescriptor(cls, box) == [img_path |-> "img", class_parts |-> cls, box |-> box]

RoiA == RegionDescriptor(<<"dog">>, <<2, 2, 6, 5>>)
RoiB == RegionDescriptor(<<"car">>, <<0, 0, 11, 10>>)
\* a class name that holds "_" splits into two pieces
RoiUnderscore == RegionDescriptor(<<"traffic", "light">>, <<1, 1, 4, 4>>)

\* ROI lists of every length up to MaxROIs
RoiLists == UNION {[1..m -> {RoiA, RoiB}] : m \in 0..MaxROIs}

\* boxes with xmin <= xmax and ymin <= ymax, inside or outside the image
Boxes ==
    {<<x0, y0, x1, y1>> : x0 \in 0..MaxCoord, y0 \in 0..MaxCoord,
                          x1 \in 0..MaxCoord, y1 \in 0..MaxCoord}

OrderedBoxes == {b \in Boxes : b[1] <= b[3] /\ b[2] <= b[4]}

\* img.size of the images of the data set: (width, height) in half pixels
ImageSizes == {<<12, 11>>, <<9, 13>>}
DefaultImageSize == <<12, 11>>

\* args.Ks: one or two cutoffs, in any order
KsChoices == UNION {[1..m -> 1..MaxK] : m \in 1..2}

DefaultOcr == << [description |-> <<" ","s","t","o","p","\n">>],
                 [description |-> <<"s","t","o","p">>],
                 [description |-> <<"a","\n","b">>] >>

Sample(qid) ==
    [question_id |-> qid,
     question |-> <<"q", Digits[qid]>>,
     answers |-> << <<" ","p","a","r","i","s"," ">> >>,
     objects |-> <<DefaultObject>>,
     img_ocr |-> DefaultOcr,
     img_caption |-> IF qid = 1
                     THEN [is_dict |-> TRUE, value |-> [caption |-> <<"z","o","o">>]]
                     ELSE [is_dict |-> FALSE, value |-> <<"s","e","a">>],
     img_path |-> "img",
     ROIs |-> <<RoiA, RoiB>>,
     text_sequence |-> <<>>]

NoError == [kind |-> "none", fn |-> "none", at |-> 0]
Raised(kind, fn, at) == [kind |-> kind, fn |-> fn, at |-> at]

EmptyDict == [k \in {} |-> <<>>]

(* ------------------------------- state -------------------------------- *)
VARIABLES
    pc,               \* the stage of main() that runs next, "done" or "error"
    err,              \* the exception that ended the run, NoError while none
    dataset,          \* ds[use_split] as loaded
    ds,               \* ds as rebound by each ds.map
    n,                \* samples prepare_inputs has mapped
    vision_sentences, \* the local vision_sentences of each prepare_inputs call
    img_size,         \* Image.open(path).size
    Ks,               \* args.Ks
    input_ids,        \* examples["input_ids"]
    pixel_values,     \* examples["pixel_values"]: per sample, its all_images
    query_embeddings, \* one per sample of the batch
    custom_quries,    \* the queries handed to the searcher, in insertion order
    ranking_dict,     \* ranking.todict()
    recall_dict       \* the "Recall@K" columns batch.update adds

vars == <<pc, err, dataset, ds, n, vision_sentences, img_size, Ks, input_ids,
          pixel_values, query_embeddings, custom_quries, ranking_dict, recall_dict>>

\* the data sets a run may load
RoiDatasets == {<<[Sample(1) EXCEPT !.ROIs = r]>> : r \in RoiLists}
               \cup {<<[Sample(1) EXCEPT !.ROIs = <<RoiA, RoiUnderscore>>]>>}

ObjectDatasets ==
    {<<[Sample(1) EXCEPT !.objects = <<o>>]>> : o \in DetectedObjects}
    \cup {<<[Sample(1) EXCEPT !.objects = <<o, DefaultObject>>]>> : o \in DetectedObjects}
    \cup {<<[Sample(1) EXCEPT !.objects = <<>>]>>}

BoxDatasets ==
    {<<[Sample(1) EXCEPT !.ROIs = <<RegionDescriptor(<<"dog">>, b)>>]>> : b \in OrderedBoxes}

\* data sets whose composition or tokenization fails
FailingDatasets ==
    {<<[Sample(1) EXCEPT !.ROIs = <<>>]>>,
     <<Sample(1), [Sample(2) EXCEPT !.ROIs = <<>>]>>,
     <<[Sample(1) EXCEPT !.ROIs = <<RoiA, RoiUnderscore>>]>>}

BatchDatasets ==
    {<<[Sample(1) EXCEPT !.answers = a]>> : a \in AnswerLists}
    \cup {<<[Sample(1) EXCEPT !.answers = a],
              [Sample(q) EXCEPT !.question = <<"w","h","o">>]>> : a \in AnswerLists, q \in {1, 2}}

InitWith(d, size, ks) ==
    /\ dataset = d
    /\ ds = d
    /\ img_size = size
    /\ Ks = ks
    /\ pc = "prepare_inputs"
    /\ err = NoError
    /\ n = 0
    /\ vision_sentences = <<>>
    /\ input_ids = <<>>
    /\ pixel_values = <<>>
    /\ query_embeddings = <<>>
    /\ custom_quries = <<>>
    /\ ranking_dict = EmptyDict
    /\ recall_dict = EmptyDict

\* a run of the whole pipeline: batches of one or two queries, any cutoffs
Init ==
    \E d \in BatchDatasets \cup FailingDatasets, ks \in KsChoices :
        InitWith(d, DefaultImageSize, ks)

\* a run up to the tokenized data set: ROI lists, detected objects and boxes
InitCompose ==
    \/ \E d \in RoiDatasets \cup ObjectDatasets : InitWith(d, DefaultImageSize, <<1, 2>>)
    \/ \E d \in BoxDatasets, size \in ImageSizes : InitWith(d, size, <<1, 2>>)

(* --------------------------- prepare_inputs --------------------------- *)
\* suitable_attributes with the test "att_score >= module.attribute_thres"
RECURSIVE suitable_attributes_ge(_, _, _)
suitable_attributes_ge(obj, i, acc) ==
    IF i > Len(obj.attributes) \/ i > Len(obj.attribute_scores) THEN acc
    ELSE suitable_attributes_ge(obj, i + 1,
            IF obj.attribute_scores[i] >= attribute_thres /\ Len(acc) < attribute_max
            THEN Append(acc, obj.attributes[i])
            ELSE acc)

\* the loop over zip(obj["attributes"], obj["attribute_scores"]), from pair i on
RECURSIVE suitable_attributes(_, _, _)
suitable_attributes(obj, i, acc) ==
    IF i > Len(obj.attributes) \/ i > Len(obj.attribute_scores) THEN acc
    ELSE suitable_attributes(obj, i + 1,
            IF obj.attribute_scores[i] > attribute_thres /\ Len(acc) < attribute_max
            THEN Append(acc, obj.attributes[i])
            ELSE acc)

\* the loop over sample.objects: attributes, class name, separator
RECURSIVE object_sentences(_)
object_sentences(objects) ==
    IF objects = <<>> THEN <<>>
    ELSE suitable_attributes(objects[1], 1, <<>>)
         \o <<objects[1].class, SOV>>
         \o object_sentences(Tail(objects))

\* the loop over sample.img_ocr: stripped, newlines replaced, first occurrences kept
RECURSIVE filtered_descriptions(_, _)
filtered_descriptions(text_annotations, acc) ==
    IF text_annotations = <<>> THEN acc
    ELSE LET description == replace_newline(strip(text_annotations[1].description))
         IN  filtered_descriptions(Tail(text_annotations),
                IF \E j \in 1..Len(acc) : acc[j] = description
                THEN acc
                ELSE Append(acc, description))

\* vision_sentences of a sample, start token to end token
vision_sentences_of(sample) ==
    <<BOV>> \o object_sentences(sample.objects)
            \o filtered_descriptions(sample.img_ocr, <<>>)
            \o <<EOV>>

\* sample["text_sequence"]
text_sequence_of(sample) ==
    LET question_part == join(<<BOQ, sample.question, EOQ>>)
        vision_part == question_part \o <<" ">> \o join(vision_sentences_of(sample))
        caption == IF sample.img_caption.is_dict
                   THEN sample.img_caption.value.caption
                   ELSE sample.img_caption.value
    IN  vision_part \o <<" ">> \o join(<<BOC, caption, EOC>>)

\* sample["ROIs"][-1] exists
pad_possible(rois, num) == ~(num > Len(rois) /\ rois = <<>>)

\* padded_ROIs padding with sample["ROIs"][0] instead of sample["ROIs"][-1]
padded_ROIs_first(rois, num) ==
    LET padded == IF num > Len(rois)
                  THEN rois \o [j \in 1..(num - Len(rois)) |-> rois[1]]
                  ELSE rois
    IN  take(padded, num)

\* the new sample["ROIs"]: padded with its last entry, then cut to num
padded_ROIs(rois, num) ==
    LET padded == IF num > Len(rois)
                  THEN rois \o [j \in 1..(num - Len(rois)) |-> rois[Len(rois)]]
                  ELSE rois
    IN  take(padded, num)

\* raised_by_prepare with a check that rejects cutoffs beyond the corpus
raised_by_prepare_checking(sample, num) ==
    IF max_of(Ks) > Len(passage_contents) THEN "ConfigurationError"
    ELSE IF pad_possible(sample.ROIs, num) THEN "none"
    ELSE "IndexError"

\* the exception a call of prepare_inputs ends in, "none" when it returns
raised_by_prepare(sample, num) ==
    IF pad_possible(sample.ROIs, num) THEN "none" ELSE "IndexError"

\* ds = ds.map(prepare_inputs): one call, on the next sample of the data set
PrepareInputs ==
    /\ pc = "prepare_inputs"
    /\ LET i == n + 1
           sample == ds[i]
       IN  IF raised_by_prepare(sample, num_ROIs) = "none"
           THEN /\ ds' = [ds EXCEPT ![i] = [sample EXCEPT
                              !.text_sequence = text_sequence_of(sample),
                              !.ROIs = padded_ROIs(sample.ROIs, num_ROIs)]]
                /\ vision_sentences' = Append(vision_sentences, vision_sentences_of(sample))
                /\ n' = i
                /\ pc' = IF i = Len(ds) THEN "tokenize_inputs" ELSE "prepare_inputs"
                /\ err' = err
           ELSE /\ pc' = "error"
                /\ err' = Raised(raised_by_prepare(sample, num_ROIs), "prepare_inputs", i)
                /\ UNCHANGED <<ds, vision_sentences, n>>
    /\ UNCHANGED <<dataset, img_size, Ks, input_ids, pixel_values, query_embeddings,
                   custom_quries, ranking_dict, recall_dict>>

(* --------------------------- tokenize_inputs -------------------------- *)
py_max(a, b) == IF a > b THEN a ELSE b
py_min(a, b) == IF a < b THEN a ELSE b

\* class_name, xmin, ymin, xmax, ymax = remaining.split("_") unpacks five values
unpacks(roi) == Len(roi.class_parts) + Len(roi.box) = 5

\* crop_of without max(0, .) and min(img.size, .): the enlarged box is not clamped
crop_of_unclamped(box, size) ==
    IF box[3] - box[1] < min_crop_size /\ box[4] - box[2] < min_crop_size
    THEN <<box[1] - enlarge_by, box[2] - enlarge_by, box[3] + enlarge_by, box[4] + enlarge_by>>
    ELSE box

\* crop_of moving only xmax and ymax
crop_of_one_sided(box, size) ==
    IF box[3] - box[1] < min_crop_size /\ box[4] - box[2] < min_crop_size
    THEN <<box[1], box[2],
           py_min(size[1], box[3] + enlarge_by), py_min(size[2], box[4] + enlarge_by)>>
    ELSE box

\* the crop tuple handed to img.crop for the parsed box, in an image of the size
crop_of(box, size) ==
    LET xmin == box[1]
        ymin == box[2]
        xmax == box[3]
        ymax == box[4]
    IN  IF xmax - xmin < min_crop_size /\ ymax - ymin < min_crop_size
        THEN <<IF xmax - xmin < min_crop_size THEN py_max(0, xmin - enlarge_by) ELSE xmin,
               IF ymax - ymin < min_crop_size THEN py_max(0, ymin - enlarge_by) ELSE ymin,
               IF xmax - xmin < min_crop_size THEN py_min(size[1], xmax + enlarge_by) ELSE xmax,
               IF ymax - ymin < min_crop_size THEN py_min(size[2], ymax + enlarge_by) ELSE ymax>>
        ELSE box

\* all_images of a sample: the primary image, then one crop per ROI
all_images_of(sample, size) ==
    <<[img_path |-> sample.img_path, crop |-> <<>>]>>
    \o [j \in 1..Len(sample.ROIs) |->
            [img_path |-> sample.ROIs[j].img_path, crop |-> crop_of(sample.ROIs[j].box, size)]]

\* ds = ds.map(tokenize_inputs, batched=True): the batch of all samples
TokenizeInputs ==
    /\ pc = "tokenize_inputs"
    /\ LET bad == {i \in 1..Len(ds) : \E j \in 1..Len(ds[i].ROIs) : ~unpacks(ds[i].ROIs[j])}
       IN  IF bad = {}
           THEN /\ input_ids' = [i \in 1..Len(ds) |-> ds[i].text_sequence]
                /\ pixel_values' = [i \in 1..Len(ds) |-> all_images_of(ds[i], img_size)]
                /\ pc' = "encode_and_search_batch"
                /\ err' = err
           ELSE /\ pc' = "error"
                /\ err' = Raised("ValueError", "tokenize_inputs",
                                 CHOOSE i \in bad : \A k \in bad : i <= k)
                /\ UNCHANGED <<input_ids, pixel_values>>
    /\ UNCHANGED <<dataset, ds, n, vision_sentences, img_size, Ks, query_embeddings,
                   custom_quries, ranking_dict, recall_dict>>

(* ----------------------- encode_and_search_batch ---------------------- *)
\* d[key] = value on a dict kept in insertion order
dict_set(d, key, value) ==
    IF \E j \in 1..Len(d) : d[j][1] = key
    THEN [j \in 1..Len(d) |-> IF d[j][1] = key THEN <<key, value>> ELSE d[j]]
    ELSE Append(d, <<key, value>>)

\* {question_id: question for question_id, question in zip(...)}, from sample i on
RECURSIVE custom_quries_of(_, _, _)
custom_quries_of(batch, i, acc) ==
    IF i > Len(batch) THEN acc
    ELSE custom_quries_of(batch, i + 1,
                          dict_set(acc, batch[i].question_id, batch[i].question))

dict_keys(d) == {d[j][1] : j \in 1..Len(d)}

\* ranked lists the searcher may return for one query: at most k documents,
\* no passage twice, each document a (passage id, rank) tuple
RankedLists(k) ==
    LET pids == 0..(Len(passage_contents) - 1)
        longest == py_min(k, Len(passage_contents))
        orders == UNION {[1..m -> pids] : m \in 0..longest}
    IN  {[r \in 1..Len(o) |-> <<o[r], r>>] :
            o \in {q \in orders : \A a, b \in 1..Len(q) : a # b => q[a] # q[b]}}

\* what search_custom_collection(...) may return as ranking.todict(): a ranked
\* list for each query it answers, which need not be every query asked
SearchResults(queries, k) ==
    UNION {[answered -> RankedLists(k)] : answered \in SUBSET dict_keys(queries)}

\* the loop over answers: found for one retrieved text
RECURSIVE found_in(_, _, _)
found_in(answers, retrieved_doc_text, found) ==
    IF answers = <<>> THEN found
    ELSE found_in(Tail(answers), retrieved_doc_text,
                  IF str_in(lower(strip(answers[1])), lower(retrieved_doc_text))
                  THEN TRUE
                  ELSE found)

\* hit_list of one query
hit_list_of(answers, retrieved) ==
    [r \in 1..Len(retrieved) |->
        IF found_in(answers, passage_contents[retrieved[r][1] + 1], FALSE) THEN 1 ELSE 0]

\* recall_dict[f"Recall@{K}"].append(recall) on a defaultdict(list)
recall_append(rd, K, recall) ==
    [k \in DOMAIN rd \cup {K} |->
        IF k = K
        THEN (IF K \in DOMAIN rd THEN rd[K] ELSE <<>>) \o <<recall>>
        ELSE rd[k]]

\* np.max raises on a zero-size array
np_max_defined(xs) == xs # <<>>

\* recall_at with np.min in place of np.max
recall_at_min(hit_list, K) ==
    LET window == take(hit_list, K)
    IN  IF \E r \in 1..Len(window) : window[r] = 0 THEN 0 ELSE 1

\* float(np.max(np.array(hit_list[:K]))), where np.max is defined
recall_at(hit_list, K) == max_of(take(hit_list, K))

\* the loop "for K in Ks" of one query: the dict after it, or the failure
RECURSIVE recall_of_query(_, _, _, _)
recall_of_query(hit_list, cutoffs, rd, at) ==
    IF cutoffs = <<>> THEN [err |-> NoError, recall_dict |-> rd]
    ELSE IF ~np_max_defined(take(hit_list, cutoffs[1]))
    THEN [err |-> Raised("ValueError", "encode_and_search_batch", at), recall_dict |-> rd]
    ELSE recall_of_query(hit_list, Tail(cutoffs),
                         recall_append(rd, cutoffs[1], recall_at(hit_list, cutoffs[1])),
                         at)

\* lookup as ranking_dict.get(question_id, []) would do it
lookup_get(ranking, question_id) ==
    [raised |-> FALSE,
     retrieved_docs |-> IF question_id \in DOMAIN ranking THEN ranking[question_id] ELSE <<>>]

\* retrieved_docs = ranking_dict[question_id]: the list, or the KeyError of a dict
lookup(ranking, question_id) ==
    IF question_id \in DOMAIN ranking
    THEN [raised |-> FALSE, retrieved_docs |-> ranking[question_id]]
    ELSE [raised |-> TRUE, retrieved_docs |-> <<>>]

\* the loop over zip(batch["question_id"], batch["answers"]), from sample i on
RECURSIVE recall_of_batch(_, _, _, _, _)
recall_of_batch(batch, i, ranking, cutoffs, rd) ==
    IF i > Len(batch) THEN [err |-> NoError, recall_dict |-> rd]
    ELSE IF lookup(ranking, batch[i].question_id).raised
    THEN [err |-> Raised("KeyError", "encode_and_search_batch", i), recall_dict |-> rd]
    ELSE LET retrieved_docs == lookup(ranking, batch[i].question_id).retrieved_docs
             hit_list == hit_list_of(batch[i].answers, retrieved_docs)
             one == recall_of_query(hit_list, cutoffs, rd, i)
         IN  IF one.err # NoError THEN one
             ELSE recall_of_batch(batch, i + 1, ranking, cutoffs, one.recall_dict)

\* ds = ds.map(encode_and_search_batch, batched=True): the batch of all samples
EncodeAndSearchBatch ==
    /\ pc = "encode_and_search_batch"
    /\ query_embeddings' = [i \in 1..Len(ds) |-> [sample |-> i]]
    /\ custom_quries' = custom_quries_of(ds, 1, <<>>)
    /\ \E ranking \in SearchResults(custom_quries', max_of(Ks)) :
          LET out == recall_of_batch(ds, 1, ranking, Ks, EmptyDict)
          IN  /\ ranking_dict' = ranking
              /\ err' = out.err
              /\ IF out.err = NoError
                 THEN pc' = "done" /\ recall_dict' = out.recall_dict
                 ELSE pc' = "error" /\ recall_dict' = recall_dict
    /\ UNCHANGED <<dataset, ds, n, vision_sentences, img_size, Ks, input_ids, pixel_values>>

Next == PrepareInputs \/ TokenizeInputs \/ EncodeAndSearchBatch

Spec == Init /\ [][Next]_vars

\* main() up to the second ds.map
NextCompose == PrepareInputs \/ TokenizeInputs

SpecCompose == InitCompose /\ [][NextCompose]_vars

(* ------------------------------ properties ---------------------------- *)
\* encode_and_search_batch has run on the batch
Searched == pc = "done" \/ err.fn = "encode_and_search_batch"

\* the searcher's result holds every query id of the batch
AllAnswered == \A i \in 1..Len(ds) : ds[i].question_id \in DOMAIN ranking_dict

\* some gold answer, trimmed and lower-cased, occurs in the lower-cased passage text
IsHit(answers, pid) ==
    \E a \in 1..Len(answers) :
        str_in(lower(strip(answers[a])), lower(passage_contents[pid + 1]))

\* 1 when one of the first K retrieved passages of query i is a hit, else 0
HitIndicator(i, K) ==
    LET retrieved == ranking_dict[ds[i].question_id]
    IN  IF \E r \in 1..Len(retrieved) : r <= K /\ IsHit(ds[i].answers, retrieved[r][1])
        THEN 1 ELSE 0

\* the values appended to Recall@K for query i: one per occurrence of K in Ks
RecordedFor(i, K) ==
    LET per_query == Cardinality({p \in 1..Len(Ks) : Ks[p] = K})
    IN  {recall_dict[K][j] : j \in ((i - 1) * per_query + 1)..(i * per_query)}

\* C1: whenever the searcher answers every query of the batch, whatever the
\* retrieved lists (shorter than K and empty ones included), the batch is returned
\* and the value appended to Recall@K for each query and each K of Ks is 1 when one
\* of the first K retrieved passages is a hit and 0 otherwise.
C1_RecallIsHitIndicator ==
    (Searched /\ AllAnswered) =>
        /\ pc = "done"
        /\ \A i \in 1..Len(ds) : \A p \in 1..Len(Ks) :
              /\ Ks[p] \in DOMAIN recall_dict
              /\ Len(recall_dict[Ks[p]]) >= i
              /\ RecordedFor(i, Ks[p]) = {HitIndicator(i, Ks[p])}

\* C2: for every query and every K1 < K2 of Ks, each value recorded for Recall@K1
\* is at most each value recorded for Recall@K2, in whatever order Ks lists them.
C2_RecallMonotone ==
    pc = "done" =>
        \A i \in 1..Len(ds) : \A p, q \in 1..Len(Ks) :
            Ks[p] < Ks[q] =>
                \A v1 \in RecordedFor(i, Ks[p]) : \A v2 \in RecordedFor(i, Ks[q]) : v1 <= v2

\* C2 witness: cutoffs listed in descending order, a hit at rank 2 or 3 only, so
\* that Recall@1 = 0 and Recall@3 = 1 are recorded for the query.
C2_Witness ==
    /\ pc = "done"
    /\ Ks = <<3, 1>>
    /\ Len(ds) = 1
    /\ recall_dict[1] = <<0>>
    /\ recall_dict[3] = <<1>>

\* C6: when the searcher's result omits the id of a query of the batch, the run
\* fails, no Recall@K value is recorded, it fails no later than at the first
\* missing query, and the failure raised at a missing query is the KeyError of
\* the lookup.
C6_MissingIdIsLookupError ==
    Searched =>
        \A i \in 1..Len(ds) :
            ds[i].question_id \notin DOMAIN ranking_dict =>
                /\ pc = "error"
                /\ recall_dict = EmptyDict
                /\ err.at <= i
                /\ (err.at = i => err.kind = "KeyError")

\* C6 witness: the first query is answered and scored, the second one's id is
\* missing, and the batch ends in the KeyError raised at the second query.
C6_Witness ==
    /\ pc = "error"
    /\ Len(ds) = 2
    /\ ds[1].question_id \in DOMAIN ranking_dict
    /\ ranking_dict[ds[1].question_id] # <<>>
    /\ ds[2].question_id \notin DOMAIN ranking_dict
    /\ err = Raised("KeyError", "encode_and_search_batch", 2)
    /\ recall_dict = EmptyDict

\* C7 as stated: a run whose largest cutoff exceeds the number of passages ends
\* in an error raised by prepare_inputs and records no Recall@K value.
C7_ConfigurationErrorAtComposition ==
    (max_of(Ks) > Len(passage_contents) /\ pc \in {"done", "error"}) =>
        /\ pc = "error"
        /\ err.fn = "prepare_inputs"
        /\ recall_dict = EmptyDict

\* C7 amended: prepare_inputs fails only with the IndexError of a sample whose
\* ROI list is empty, whatever Ks and the corpus size; the image list of a
\* tokenized sample is never empty; so a run whose cutoffs exceed the corpus is
\* not stopped at composition time.
C7_NoConfigurationCheck ==
    /\ err.fn = "prepare_inputs" =>
          /\ err.kind = "IndexError"
          /\ dataset[err.at].ROIs = <<>>
    /\ \A i \in 1..n : dataset[i].ROIs # <<>>
    /\ \A i \in 1..Len(pixel_values) : pixel_values[i] # <<>>

\* C7 witness: the largest cutoff exceeds the corpus and the run still ends with
\* Recall@K recorded for it.
C7_Witness ==
    /\ pc = "done"
    /\ max_of(Ks) > Len(passage_contents)
    /\ max_of(Ks) \in DOMAIN recall_dict
    /\ Len(recall_dict[max_of(Ks)]) >= Len(ds)

\* C10: the query mapping handed to the searcher has one entry per query
\* embedding, and its i-th entry carries the question_id of the i-th sample,
\* also when two samples of the batch carry the same question_id.
C10_OneQueryPerEmbedding ==
    Searched =>
        /\ Len(custom_quries) = Len(query_embeddings)
        /\ \A i \in 1..Len(custom_quries) : custom_quries[i][1] = ds[i].question_id

\* tokenize_inputs has returned the batch
Tokenized == pc \in {"encode_and_search_batch", "done"} \/ err.fn = "encode_and_search_batch"

\* C3: for every sample, whatever the length of its ROI list (the empty list
\* included), prepare_inputs and tokenize_inputs yield an image list of
\* num_ROIs + 1 entries: the full primary image, then num_ROIs region crops.
C3_ImageListLength ==
    /\ err.fn # "prepare_inputs"
    /\ Tokenized =>
          \A i \in 1..Len(ds) :
              /\ Len(pixel_values[i]) = num_ROIs + 1
              /\ pixel_values[i][1].crop = <<>>
              /\ \A j \in 2..(num_ROIs + 1) : pixel_values[i][j].crop # <<>>

\* C4: after prepare_inputs the ROI list of a sample is the original list when
\* that has num_ROIs entries; the original list followed by copies of its last
\* entry, up to num_ROIs entries, when it has fewer; its first num_ROIs entries
\* when it has more; the original order is kept throughout.
C4_PaddedOrTruncated ==
    \A i \in 1..n :
        LET original == dataset[i].ROIs
            prepared == ds[i].ROIs
        IN  /\ Len(prepared) = num_ROIs
            /\ \A j \in 1..num_ROIs :
                  prepared[j] = IF j <= Len(original) THEN original[j]
                                ELSE original[Len(original)]
            /\ Len(original) = num_ROIs => prepared = original

\* C4 witness: a list of three ROIs whose last two differ is padded with its
\* last entry only.
C4_Witness ==
    /\ n = 1
    /\ Len(dataset[1].ROIs) = 3
    /\ dataset[1].ROIs[2] # dataset[1].ROIs[3]
    /\ Len(ds[1].ROIs) = num_ROIs
    /\ \A j \in 3..num_ROIs : ds[1].ROIs[j] = dataset[1].ROIs[3]

\* the positions of obj's attributes whose score is strictly above the threshold
Passing(obj) == {j \in 1..Len(obj.attributes) : obj.attribute_scores[j] > attribute_thres}

\* the first attribute_max passing attributes of obj, in their original order
FirstPassing(obj) ==
    LET chosen == {j \in Passing(obj) :
                      Cardinality({k \in Passing(obj) : k < j}) < attribute_max}
        order == CHOOSE f \in [1..Cardinality(chosen) -> chosen] :
                      \A a, b \in 1..Cardinality(chosen) : a < b => f[a] < f[b]
    IN  [a \in 1..Cardinality(chosen) |-> obj.attributes[order[a]]]

\* for each object in turn: its first passing attributes, class name, separator
RECURSIVE ExpectedObjectPart(_)
ExpectedObjectPart(objects) ==
    IF objects = <<>> THEN <<>>
    ELSE FirstPassing(objects[1]) \o <<objects[1].class, SOV>>
         \o ExpectedObjectPart(Tail(objects))

\* C5: the attributes placed before the class name of each detected object are
\* the first attribute_max (3) attributes, in original order, among those whose
\* score is strictly greater than attribute_thres (0.05).
C5_FirstThreeAboveThreshold ==
    \A i \in 1..n :
        LET expected == <<BOV>> \o ExpectedObjectPart(dataset[i].objects)
        IN  /\ Len(vision_sentences[i]) > Len(expected)
            /\ SubSeq(vision_sentences[i], 1, Len(expected)) = expected

\* C5 witness: scores 0.9, 0.01, 0.9, 0.9 select the first, third and fourth
\* attribute, in that order, before the class name.
C5_Witness ==
    /\ n = 1
    /\ Len(dataset[1].objects) = 1
    /\ dataset[1].objects[1].attribute_scores = <<90, 1, 90, 90>>
    /\ SubSeq(vision_sentences[1], 1, 6)
          = <<BOV, <<"a","1">>, <<"a","3">>, <<"a","4">>, <<"c","a","t">>, SOV>>

\* the box is non-negative, ordered and within the image
ValidCrop(crop, size) ==
    /\ crop[1] >= 0 /\ crop[2] >= 0 /\ crop[3] >= 0 /\ crop[4] >= 0
    /\ crop[3] <= size[1] /\ crop[4] <= size[2]
    /\ crop[1] <= crop[3] /\ crop[2] <= crop[4]

\* C8 as stated: for every parsed box and every image size, the box handed to
\* img.crop is valid, whether or not it was enlarged.
C8_CropAlwaysValid ==
    Tokenized =>
        \A i \in 1..Len(ds) : \A j \in 1..Len(ds[i].ROIs) :
            ValidCrop(pixel_values[i][j + 1].crop, img_size)

\* C8 amended: for every parsed box that lies within its image
\* (0 <= xmin <= xmax <= width, 0 <= ymin <= ymax <= height), the box handed to
\* img.crop is valid, whether or not it was enlarged.
C8_ValidBoxStaysValid ==
    Tokenized =>
        \A i \in 1..Len(ds) : \A j \in 1..Len(ds[i].ROIs) :
            ValidCrop(ds[i].ROIs[j].box, img_size) =>
                ValidCrop(pixel_values[i][j + 1].crop, img_size)

\* C8 witness: a small box in the corner of its image is enlarged and clamped
\* to the image on the left and at the top.
C8_Witness ==
    /\ Tokenized
    /\ ds[1].ROIs[1].box = <<0, 1, 3, 4>>
    /\ pixel_values[1][2].crop = <<0, 0, 8, 9>>

\* C9: a box under 5 px wide and high that lies at least 2.5 px from every edge
\* of its image is handed to img.crop with each side moved outwards by exactly
\* 2.5 px, so at least 5 px wide and high.
C9_EnlargedToFivePixels ==
    Tokenized =>
        \A i \in 1..Len(ds) : \A j \in 1..Len(ds[i].ROIs) :
            LET box == ds[i].ROIs[j].box
                crop == pixel_values[i][j + 1].crop
            IN  (/\ box[3] - box[1] < min_crop_size
                 /\ box[4] - box[2] < min_crop_size
                 /\ box[1] >= enlarge_by /\ box[2] >= enlarge_by
                 /\ box[3] <= img_size[1] - enlarge_by
                 /\ box[4] <= img_size[2] - enlarge_by)
                => /\ crop = <<box[1] - enlarge_by, box[2] - enlarge_by,
                               box[3] + enlarge_by, box[4] + enlarge_by>>
                   /\ crop[3] - crop[1] >= min_crop_size
                   /\ crop[4] - crop[2] >= min_crop_size

\* C9 witness: a point-sized box 2.5 px from the left and top edges becomes a
\* box exactly 5 px wide and high.
C9_Witness ==
    /\ Tokenized
    /\ ds[1].ROIs[1].box = <<5, 5, 5, 5>>
    /\ pixel_values[1][2].crop = <<0, 0, 10, 10>>

====
